---- MODULE Spec2Model ----
(***************************************************************************)
(* PapilioSPI: master-side SPI transport (src/src/PapilioSPI.cpp).         *)
(*                                                                         *)
(* The handle's fields, the GPIO select pin, the SPI driver and the        *)
(* peripheral behind it are the state.  A transfer is followed statement   *)
(* by statement (pc), so that the select line and the bus can be observed  *)
(* between any two statements of a call.  The library is single threaded:  *)
(* a new call starts only when the previous one has returned (pc = idle).  *)
(*                                                                         *)
(* A uint8_t / uint16_t is a natural number below 2^8 / 2^16.  A uint32_t  *)
(* is held as the pair <<hi, lo>> of its 16-bit halves (value hi*2^16+lo), *)
(* because TLC's integers are 32-bit signed and words such as 0xDEAD0000  *)
(* (examples/burst_transfers) do not fit in them.                          *)
(***************************************************************************)
EXTENDS Integers, Sequences, FiniteSets, TLC

VARIABLES
    _spi,          \* SPIClass* _spi      : NULL or the driver
    _cs,           \* int _cs             : select pin number, -1 before begin
    _speed,        \* uint32_t _speed
    _mode,         \* uint8_t _mode
    _bitWidth,     \* uint8_t _bitWidth
    _initialized,  \* bool _initialized
    pin,           \* GPIO output latch of every pin: "UNSET", "HIGH", "LOW"
    bus,           \* SPI driver: settings of the transaction it holds, or NoTxn
    fpga,          \* the peripheral on the other side of the link
    pc,            \* position of the running call, "idle" between calls
    call,          \* the running call: entry point and arguments
    i,             \* number of physical exchanges the running call has made
    rxd,           \* bytes the running call has received, in order
    result,        \* value the call returns
    buf,           \* caller-owned byte buffers of a burst, by name
    trace,         \* what the running call did to pin and bus, in order
    prev           \* loopback harness: the word sent by the previous transfer

vars == <<_spi, _cs, _speed, _mode, _bitWidth, _initialized, pin, bus, fpga,
          pc, call, i, rxd, result, buf, trace, prev>>

handle == <<_spi, _cs, _speed, _mode, _bitWidth, _initialized>>

-----------------------------------------------------------------------------
(* Bounds and input domains *)

\* longest burst (len) the caller asks for
MaxLen == 3

\* bytes of block memory behind the peripheral (256 on the board)
MemSize == 3

\* capacity of the caller's buffers: one byte more than the longest burst
BufCap == MaxLen + 1

NULL == "NULL"
SPI == "SPI"
NoTxn == [txn |-> FALSE, speed |-> 0, mode |-> 0]
Unset == "unset"
Void == "void"
NoPrev == [fn |-> "none", data |-> 0]

SPI_MODE0 == 0
SPI_MODE3 == 3

\* select pins the examples wire (SPI_CS = 3)
CsPins == {3}

\* arguments of begin / setSpeed, setMode, setBitWidth
SpiArgs == {SPI, NULL}
SpeedArgs == {1000000, 8000000}
ModeArgs == {1, 3, 4}
WidthArgs == {16, 32, 24}

\* words the caller sends
Data8 == {0, 255, 18}
\* 0xA000, 0xA001, 0x00FF / 0xDEAD0000, 0xDEAD0001, 0xDEAD00FF
Data16 == {40960, 40961, 255}
Data32 == {<<57005, 0>>, <<57005, 1>>, <<57005, 255>>}

\* command bytes of the block-memory peripheral: 0xFF resets the address,
\* 0xFE enters read mode
CmdReset == 255
CmdRead == 254

\* bytes the block-memory test writes: data (0x00, 0x12, 0xFD) and, when it
\* does not remap them, the two command values
BramData == {0, 18, 253, CmdRead, CmdReset}

\* bytes a peripheral of unknown behaviour answers with
RxBytes == {0, 173, 222, 255}

\* send buffer contents: txBuf[i] = i (loopback_test) and an alternating one
TxPatterns ==
    { [k \in 1..BufCap |-> k - 1],
      [k \in 1..BufCap |-> IF k % 2 = 1 THEN 255 ELSE 1] }

\* a receive buffer before a burst: filled with 0xEE
PoisonBuf == [k \in 1..BufCap |-> 238]
NoBufs == [A |-> PoisonBuf, B |-> PoisonBuf]

\* a call: its entry point, its arguments and the buffers as the caller
\* handed them over
NoCall ==
    [fn |-> "none", data |-> 0, tx |-> NULL, rx |-> NULL, len |-> 0, buf0 |-> NoBufs]

-----------------------------------------------------------------------------
(* Byte order of the wide transfers *)

\* (data >> 8) & 0xFF and data & 0xFF of a uint16_t
\* the bytes of a uint16_t least significant first
TxByte16_lowFirst(data, k) ==
    IF k = 1 THEN data % 256 ELSE (data \div 256) % 256

TxByte16(data, k) ==
    IF k = 1 THEN (data \div 256) % 256 ELSE data % 256

\* the bytes of a uint32_t least significant first
TxByte32_lsbFirst(data, k) ==
    CASE k = 1 -> data[2] % 256
      [] k = 2 -> (data[2] \div 256) % 256
      [] k = 3 -> data[1] % 256
      [] OTHER -> (data[1] \div 256) % 256

\* (data >> 24) & 0xFF ... data & 0xFF of a uint32_t held as <<hi, lo>>
TxByte32(data, k) ==
    CASE k = 1 -> (data[1] \div 256) % 256
      [] k = 2 -> data[1] % 256
      [] k = 3 -> (data[2] \div 256) % 256
      [] OTHER -> data[2] % 256

\* the two bytes put together the wrong way round
Word16_swapped(high, low) == ((low * 256) % 65536) + high

\* ((uint16_t)high << 8) | low ; the two fields do not overlap, so | is +
Word16(high, low) == ((high * 256) % 65536) + low

\* the two low bytes put together the wrong way round
Word32_swapped(b3, b2, b1, b0) == << ((b3 * 256) % 65536) + b2, ((b0 * 256) % 65536) + b1 >>

\* (b3 << 24) | (b2 << 16) | (b1 << 8) | b0 as <<hi, lo>>
Word32(b3, b2, b1, b0) == << ((b3 * 256) % 65536) + b2, ((b1 * 256) % 65536) + b0 >>

-----------------------------------------------------------------------------
(* The peripheral *)

\* A test double that answers every exchange with an arbitrary byte.
FreeFpga == [kind |-> "free", width |-> 8, reg |-> <<0>>, cur |-> <<>>]

\* Loopback peripheral with a shift register of TRANSFER_WIDTH bits: the word
\* it has received is what it sends during the next word.
LoopbackFpgas ==
    { [kind |-> "loopback", width |-> w, reg |-> [k \in 1..(w \div 8) |-> g], cur |-> <<>>] :
        w \in {8, 16, 32}, g \in {0, 90} }

\* The byte the peripheral puts on MISO during the next exchange.
FpgaOut(f) == f.reg[Len(f.cur) + 1]

\* The peripheral after it has shifted in byte b.
FpgaIn(f, b) ==
    LET c == Append(f.cur, b) IN
    IF Len(c) = f.width \div 8
      THEN [f EXCEPT !.reg = c, !.cur = <<>>]
      ELSE [f EXCEPT !.cur = c]

\* The select line going high ends the word in progress.
FpgaDeselect(f) == [f EXCEPT !.cur = <<>>]

\* Block-memory peripheral: an address counter, a write/read mode and MemSize
\* bytes that are zero or 0x5A at power-on.
BramFpgas ==
    { [kind |-> "bram", width |-> 8, reg |-> <<0>>, cur |-> <<>>,
       mem |-> [k \in 1..MemSize |-> g], addr |-> 0, rd |-> FALSE] : g \in {0, 90} }

\* What the block memory answers during an exchange: in read mode the byte at
\* the address counter, in write mode nothing the master can rely on.
BramOut(f) == IF f.rd THEN {f.mem[f.addr + 1]} ELSE RxBytes

\* The block memory after byte b: 0xFF resets the address and returns to write
\* mode, 0xFE enters read mode, any other byte is stored in write mode; every
\* data byte exchanged moves the address counter on by one.
BramIn(f, b) ==
    CASE b = CmdReset -> [f EXCEPT !.addr = 0, !.rd = FALSE]
      [] b = CmdRead -> [f EXCEPT !.rd = TRUE]
      [] OTHER ->
           [f EXCEPT !.mem = IF f.rd THEN @ ELSE [@ EXCEPT ![f.addr + 1] = b],
                     !.addr = (@ + 1) % MemSize]

\* what a selected peripheral answers, and what it becomes, by kind
FpgaMiso(f) ==
    CASE f.kind = "loopback" -> {FpgaOut(f)}
      [] f.kind = "bram" -> BramOut(f)
      [] OTHER -> RxBytes

FpgaAfter(f, b) ==
    CASE f.kind = "loopback" -> FpgaIn(f, b)
      [] f.kind = "bram" -> BramIn(f, b)
      [] OTHER -> f

-----------------------------------------------------------------------------
(* Helpers of the handle *)

\* the select line is asserted: the pin the handle drives is low
Selected == _cs \in DOMAIN pin /\ pin[_cs] = "LOW"

\* a handle whose transfers have lost their guard
NotReady_unguarded == FALSE

\* if (!_initialized || !_spi) return ...
NotReady == ~_initialized \/ _spi = NULL

\* one entry of the running call's trace: what it did, the byte sent and
\* received if it was an exchange, and whether the select line was asserted
\* and the bus held when it did it
Ev(e, tx, rx) ==
    [e |-> e, tx |-> tx, rx |-> rx, sel |-> Selected, txn |-> bus.txn, dev |-> fpga]

\* digitalWrite(p, level): pins that do not exist are ignored
DigitalWrite(p, level) ==
    IF p \in DOMAIN pin THEN [pin EXCEPT ![p] = level] ELSE pin

Init ==
    /\ _spi = NULL
    /\ _cs = -1
    /\ _speed = 1000000
    /\ _mode = SPI_MODE0
    /\ _bitWidth = 8
    /\ _initialized = FALSE
    /\ pin = [p \in CsPins |-> "UNSET"]
    /\ bus = NoTxn
    /\ fpga = FreeFpga
    /\ pc = "idle"
    /\ call = NoCall
    /\ i = 0
    /\ rxd = <<>>
    /\ result = 0
    /\ buf = NoBufs
    /\ trace = <<>>
    /\ prev = NoPrev

-----------------------------------------------------------------------------
(* Lifecycle, configuration and status probes: they run to completion *)

\* a call that returns at once: the arguments and the returned value stay
\* visible until the caller takes the value (Return)
Returns(fn, arg, value) ==
    /\ pc' = "ret"
    /\ call' = [NoCall EXCEPT !.fn = fn, !.data = arg]
    /\ result' = value
    /\ UNCHANGED <<i, rxd, buf, trace, prev>>

begin(spi, cs_pin, speed, mode) ==
    /\ pc = "idle"
    /\ _spi' = spi
    /\ _cs' = cs_pin
    /\ _speed' = speed
    /\ _mode' = mode
    /\ _bitWidth' = 8
    /\ pin' = DigitalWrite(cs_pin, "HIGH")
    /\ _initialized' = TRUE
    /\ Returns("begin", mode, TRUE)
    /\ UNCHANGED <<bus, fpga>>

end ==
    /\ pc = "idle"
    /\ _initialized' = FALSE
    /\ _spi' = NULL
    /\ Returns("end", 0, Void)
    /\ UNCHANGED <<_cs, _speed, _mode, _bitWidth, pin, bus, fpga>>

setBitWidth(width) ==
    /\ pc = "idle"
    /\ _bitWidth' = IF width = 8 \/ width = 16 \/ width = 32 THEN width ELSE _bitWidth
    /\ Returns("setBitWidth", width, Void)
    /\ UNCHANGED <<_spi, _cs, _speed, _mode, _initialized, pin, bus, fpga>>

setSpeed(hz) ==
    /\ pc = "idle"
    /\ _speed' = hz
    /\ Returns("setSpeed", hz, Void)
    /\ UNCHANGED <<_spi, _cs, _mode, _bitWidth, _initialized, pin, bus, fpga>>

\* a setMode that stores whatever it is given
setMode_unchecked(mode) ==
    /\ pc = "idle"
    /\ _mode' = mode
    /\ Returns("setMode", mode, Void)
    /\ UNCHANGED <<_spi, _cs, _speed, _bitWidth, _initialized, pin, bus, fpga>>

setMode(mode) ==
    /\ pc = "idle"
    /\ _mode' = IF mode <= SPI_MODE3 THEN mode ELSE _mode
    /\ Returns("setMode", mode, Void)
    /\ UNCHANGED <<_spi, _cs, _speed, _bitWidth, _initialized, pin, bus, fpga>>

rxAvailable ==
    /\ pc = "idle"
    /\ Returns("rxAvailable", 0, 0)
    /\ UNCHANGED <<handle, pin, bus, fpga>>

txReady ==
    /\ pc = "idle"
    /\ Returns("txReady", 0, TRUE)
    /\ UNCHANGED <<handle, pin, bus, fpga>>

-----------------------------------------------------------------------------
(* Transfers: the guard, then one action per statement *)

\* a call that passed its guard and goes on to _beginTransaction()
Enters(fn, data, tx, rx, len) ==
    /\ pc' = "begin"
    /\ call' = [fn |-> fn, data |-> data, tx |-> tx, rx |-> rx, len |-> len,
                buf0 |-> buf']
    /\ result' = Unset
    /\ UNCHANGED <<i, rxd, trace, prev>>

\* a transfer whose guard fails returns the zero value and does nothing else
Refuses(fn, data, tx, rx, len, value) ==
    /\ pc' = "ret"
    /\ call' = [fn |-> fn, data |-> data, tx |-> tx, rx |-> rx, len |-> len,
                buf0 |-> buf']
    /\ result' = value
    /\ UNCHANGED <<i, rxd, trace, prev>>

transfer8(data) ==
    /\ pc = "idle"
    /\ UNCHANGED <<handle, pin, bus, fpga, buf>>
    /\ IF NotReady
         THEN Refuses("transfer8", data, NULL, NULL, 1, 0)
         ELSE Enters("transfer8", data, NULL, NULL, 1)

transfer16(data) ==
    /\ pc = "idle"
    /\ UNCHANGED <<handle, pin, bus, fpga, buf>>
    /\ IF NotReady
         THEN Refuses("transfer16", data, NULL, NULL, 2, 0)
         ELSE Enters("transfer16", data, NULL, NULL, 2)

transfer32(data) ==
    /\ pc = "idle"
    /\ UNCHANGED <<handle, pin, bus, fpga, buf>>
    /\ IF NotReady
         THEN Refuses("transfer32", data, NULL, NULL, 4, <<0, 0>>)
         ELSE Enters("transfer32", data, NULL, NULL, 4)

\* a burst guard that does not look at len
BurstGuard_noLen(len) == NotReady

\* if (!_initialized || !_spi || len == 0) return
BurstGuard(len) == NotReady \/ len = 0

\* the caller has filled buffer A and poisoned buffer B; txBuf is A or absent,
\* rxBuf is B, A itself (exchange in place) or absent
transferBurst(txBuf, rxBuf, len, pattern) ==
    /\ pc = "idle"
    /\ buf' = [A |-> pattern, B |-> PoisonBuf]
    /\ IF BurstGuard(len)
         THEN Refuses("transferBurst", 0, txBuf, rxBuf, len, Void)
         ELSE Enters("transferBurst", 0, txBuf, rxBuf, len)
    /\ UNCHANGED <<handle, pin, bus, fpga>>

\* return transfer8(0x00)
readFifo ==
    /\ pc = "idle"
    /\ UNCHANGED <<handle, pin, bus, fpga, buf>>
    /\ IF NotReady
         THEN Refuses("readFifo", 0, NULL, NULL, 1, 0)
         ELSE Enters("readFifo", 0, NULL, NULL, 1)

\* transfer8(data)
writeFifo(data) ==
    /\ pc = "idle"
    /\ UNCHANGED <<handle, pin, bus, fpga, buf>>
    /\ IF NotReady
         THEN Refuses("writeFifo", data, NULL, NULL, 1, Void)
         ELSE Enters("writeFifo", data, NULL, NULL, 1)

\* transfer8(testPattern) with testPattern = 0xA5, then return true
\* an isReady that answers true without touching the link
isReady_stub ==
    /\ pc = "idle"
    /\ UNCHANGED <<handle, pin, bus, fpga, buf>>
    /\ Refuses("isReady", 165, NULL, NULL, 1, TRUE)

isReady ==
    /\ pc = "idle"
    /\ UNCHANGED <<handle, pin, bus, fpga, buf>>
    /\ IF NotReady
         THEN Refuses("isReady", 165, NULL, NULL, 1, FALSE)
         ELSE Enters("isReady", 165, NULL, NULL, 1)

\* a transfer that asserts the select line without opening the link transaction
_beginTransaction_skipped ==
    /\ pc = "begin"
    /\ trace' = Append(trace, Ev("beginTransaction", 0, 0))
    /\ pc' = "cslow"
    /\ UNCHANGED <<handle, pin, bus, fpga, call, i, rxd, result, buf, prev>>

\* a link transaction opened with the constructor's settings
_beginTransaction_defaults ==
    /\ pc = "begin"
    /\ bus' = IF _spi # NULL THEN [txn |-> TRUE, speed |-> 1000000, mode |-> SPI_MODE0] ELSE bus
    /\ trace' = Append(trace, Ev("beginTransaction", 0, 0))
    /\ pc' = "cslow"
    /\ UNCHANGED <<handle, pin, fpga, call, i, rxd, result, buf, prev>>

_beginTransaction ==
    /\ pc = "begin"
    /\ bus' = IF _spi # NULL THEN [txn |-> TRUE, speed |-> _speed, mode |-> _mode] ELSE bus
    /\ trace' = Append(trace, Ev("beginTransaction", 0, 0))
    /\ pc' = "cslow"
    /\ UNCHANGED <<handle, pin, fpga, call, i, rxd, result, buf, prev>>

\* a _csLow that does not drive the pin
_csLow_forgotten ==
    /\ pc = "cslow"
    /\ trace' = Append(trace, Ev("csLow", 0, 0))
    /\ pc' = "xfer"
    /\ UNCHANGED <<handle, pin, bus, fpga, call, i, rxd, result, buf, prev>>

_csLow ==
    /\ pc = "cslow"
    /\ pin' = DigitalWrite(_cs, "LOW")
    /\ trace' = Append(trace, Ev("csLow", 0, 0))
    /\ pc' = "xfer"
    /\ UNCHANGED <<handle, bus, fpga, call, i, rxd, result, buf, prev>>

\* what MISO can carry during the exchange of one byte
Miso ==
    IF Selected THEN FpgaMiso(fpga) ELSE RxBytes

\* _spi->transfer(tx) returning rx: a peripheral that is not selected ignores
\* the byte
SpiTransfer(tx, rx) ==
    /\ rx \in Miso
    /\ fpga' = IF Selected THEN FpgaAfter(fpga, tx) ELSE fpga
    /\ rxd' = Append(rxd, rx)
    /\ i' = i + 1
    /\ trace' = Append(trace, Ev("transfer", tx, rx))

\* a transfer8 that makes as many exchanges as the stored width has bytes
transfer8_xfer_byWidth ==
    /\ pc = "xfer"
    /\ call.fn \in {"transfer8", "readFifo", "writeFifo", "isReady"}
    /\ \E rx \in Miso : SpiTransfer(call.data, rx)
    /\ pc' = IF i + 1 < _bitWidth \div 8 THEN "xfer" ELSE "cshigh"
    /\ UNCHANGED <<handle, pin, bus, call, result, buf, prev>>

\* a transfer8 that sends 0xFD in place of the two command values
transfer8_xfer_remapped ==
    /\ pc = "xfer"
    /\ call.fn \in {"transfer8", "readFifo", "writeFifo", "isReady"}
    /\ \E rx \in Miso :
          SpiTransfer(IF call.data \in {CmdRead, CmdReset} THEN 253 ELSE call.data, rx)
    /\ pc' = "cshigh"
    /\ UNCHANGED <<handle, pin, bus, call, result, buf, prev>>

\* result = _spi->transfer(data), also under readFifo, writeFifo and isReady
transfer8_xfer ==
    /\ pc = "xfer"
    /\ call.fn \in {"transfer8", "readFifo", "writeFifo", "isReady"}
    /\ \E rx \in Miso : SpiTransfer(call.data, rx)
    /\ pc' = "cshigh"
    /\ UNCHANGED <<handle, pin, bus, call, result, buf, prev>>

\* a transfer16 that leaves the window after the high byte
transfer16_xfer_short ==
    /\ pc = "xfer"
    /\ call.fn = "transfer16"
    /\ \E rx \in Miso : SpiTransfer(TxByte16(call.data, i + 1), rx)
    /\ pc' = "cshigh"
    /\ UNCHANGED <<handle, pin, bus, call, result, buf, prev>>

\* high = _spi->transfer((data >> 8) & 0xFF); low = _spi->transfer(data & 0xFF)
transfer16_xfer ==
    /\ pc = "xfer"
    /\ call.fn = "transfer16"
    /\ \E rx \in Miso : SpiTransfer(TxByte16(call.data, i + 1), rx)
    /\ pc' = IF i + 1 = 2 THEN "cshigh" ELSE "xfer"
    /\ UNCHANGED <<handle, pin, bus, call, result, buf, prev>>

\* b3 = _spi->transfer((data >> 24) & 0xFF) ... b0 = _spi->transfer(data & 0xFF)
transfer32_xfer ==
    /\ pc = "xfer"
    /\ call.fn = "transfer32"
    /\ \E rx \in Miso : SpiTransfer(TxByte32(call.data, i + 1), rx)
    /\ pc' = IF i + 1 = 4 THEN "cshigh" ELSE "xfer"
    /\ UNCHANGED <<handle, pin, bus, call, result, buf, prev>>

\* a burst that sends the first byte of the send buffer every time
BurstTxByte_first == IF call.tx # NULL THEN buf[call.tx][1] ELSE 0

\* uint8_t txByte = txBuf ? txBuf[i] : 0x00   (buffers are indexed from 1 here)
BurstTxByte == IF call.tx # NULL THEN buf[call.tx][i + 1] ELSE 0

\* a burst that stores every byte at the start of the receive buffer
BurstStore_first(rxByte) ==
    IF call.rx # NULL THEN [buf EXCEPT ![call.rx][1] = rxByte] ELSE buf

\* a burst that stores every byte one place further on
BurstStore_ahead(rxByte) ==
    IF call.rx # NULL /\ i + 2 <= BufCap
      THEN [buf EXCEPT ![call.rx][i + 2] = rxByte] ELSE buf

\* if (rxBuf) rxBuf[i] = rxByte
BurstStore(rxByte) ==
    IF call.rx # NULL THEN [buf EXCEPT ![call.rx][i + 1] = rxByte] ELSE buf

\* a burst whose loop exit returns without closing the window
transferBurst_loop_leaves ==
    /\ pc = "xfer"
    /\ call.fn = "transferBurst"
    /\ IF i < call.len
         THEN /\ \E rx \in Miso :
                   /\ SpiTransfer(BurstTxByte, rx)
                   /\ buf' = BurstStore(rx)
              /\ pc' = "xfer"
         ELSE /\ pc' = "end"
              /\ UNCHANGED <<fpga, rxd, i, trace, buf>>
    /\ UNCHANGED <<handle, pin, bus, call, result, prev>>

\* for (size_t i = 0; i < len; i++): one iteration, or the exit of the loop
transferBurst_loop ==
    /\ pc = "xfer"
    /\ call.fn = "transferBurst"
    /\ IF i < call.len
         THEN /\ \E rx \in Miso :
                   /\ SpiTransfer(BurstTxByte, rx)
                   /\ buf' = BurstStore(rx)
              /\ pc' = "xfer"
         ELSE /\ pc' = "cshigh"
              /\ UNCHANGED <<fpga, rxd, i, trace, buf>>
    /\ UNCHANGED <<handle, pin, bus, call, result, prev>>

\* a _csHigh that leaves the pin as it is
_csHigh_stuck ==
    /\ pc = "cshigh"
    /\ trace' = Append(trace, Ev("csHigh", 0, 0))
    /\ pc' = "end"
    /\ UNCHANGED <<handle, pin, fpga, bus, call, i, rxd, result, buf, prev>>

_csHigh ==
    /\ pc = "cshigh"
    /\ pin' = DigitalWrite(_cs, "HIGH")
    /\ fpga' = IF Selected THEN FpgaDeselect(fpga) ELSE fpga
    /\ trace' = Append(trace, Ev("csHigh", 0, 0))
    /\ pc' = "end"
    /\ UNCHANGED <<handle, bus, call, i, rxd, result, buf, prev>>

\* a transfer8 that returns its argument instead of the byte received
ReturnValue_echo ==
    CASE call.fn \in {"transfer8", "readFifo"} -> call.data
      [] call.fn = "transfer16" -> Word16(rxd[1], rxd[2])
      [] call.fn = "transfer32" -> Word32(rxd[1], rxd[2], rxd[3], rxd[4])
      [] call.fn = "isReady" -> TRUE
      [] OTHER -> Void

\* the value a transfer returns, from the bytes it received
ReturnValue ==
    CASE call.fn \in {"transfer8", "readFifo"} -> rxd[1]
      [] call.fn = "transfer16" -> Word16(rxd[1], rxd[2])
      [] call.fn = "transfer32" -> Word32(rxd[1], rxd[2], rxd[3], rxd[4])
      [] call.fn = "isReady" -> TRUE
      [] OTHER -> Void

_endTransaction ==
    /\ pc = "end"
    /\ bus' = IF _spi # NULL THEN NoTxn ELSE bus
    /\ trace' = Append(trace, Ev("endTransaction", 0, 0))
    /\ result' = ReturnValue
    /\ pc' = "ret"
    /\ UNCHANGED <<handle, pin, fpga, call, i, rxd, buf, prev>>

\* The block-memory test (examples/bram_interface): reset the address, write
\* n bytes, reset the address, enter read mode, read n bytes.  What it has
\* written and read so far, and where it is, once the call it made returns.
BramNote ==
    CASE prev.phase = "reset" ->
           [prev EXCEPT !.phase = IF prev.n = 0 THEN "reset2" ELSE "write"]
      [] prev.phase = "write" /\ call.fn = "transferBurst" ->
           [prev EXCEPT !.written = SubSeq(call.buf0.A, 1, call.len),
                        !.phase = "reset2"]
      [] prev.phase = "write" /\ call.fn # "transferBurst" ->
           [prev EXCEPT !.written = Append(@, call.data),
                        !.phase = IF Len(prev.written) + 1 = prev.n
                                    THEN "reset2" ELSE "write"]
      [] prev.phase = "reset2" -> [prev EXCEPT !.phase = "readmode"]
      [] prev.phase = "readmode" ->
           [prev EXCEPT !.phase = IF prev.n = 0 THEN "done" ELSE "read"]
      [] prev.phase = "read" ->
           [prev EXCEPT !.read = Append(@, result),
                        !.phase = IF Len(prev.read) + 1 = prev.n
                                    THEN "done" ELSE "read"]
      [] OTHER -> prev

\* the word a completed transfer8/16/32 sent, as the loopback examples keep it
\* (tx_data[i-1]) to compare the next result with; other calls that exchanged
\* bytes break the sequence
Sent ==
    IF fpga.kind = "bram" /\ i > 0 THEN BramNote
    ELSE IF fpga.kind # "loopback" \/ i = 0 THEN prev
    ELSE IF call.fn \in {"transfer8", "transfer16", "transfer32"}
      THEN [fn |-> call.fn, data |-> call.data]
      ELSE NoPrev

\* the call returns to its caller
Return ==
    /\ pc = "ret"
    /\ pc' = "idle"
    /\ prev' = Sent
    /\ call' = NoCall
    /\ i' = 0
    /\ rxd' = <<>>
    /\ result' = 0
    /\ buf' = NoBufs
    /\ trace' = <<>>
    /\ UNCHANGED <<handle, pin, bus, fpga>>

-----------------------------------------------------------------------------
(* Specifications *)

Lifecycle ==
    \/ \E spi \in SpiArgs, cs_pin \in CsPins, speed \in SpeedArgs, mode \in ModeArgs :
          begin(spi, cs_pin, speed, mode)
    \/ end

Configure ==
    \/ \E width \in WidthArgs : setBitWidth(width)
    \/ \E hz \in SpeedArgs : setSpeed(hz)
    \/ \E mode \in ModeArgs : setMode(mode)

Probe ==
    \/ rxAvailable
    \/ txReady
    \/ isReady

Calls ==
    \/ \E data \in Data8 : transfer8(data)
    \/ \E data \in Data16 : transfer16(data)
    \/ \E data \in Data32 : transfer32(data)
    \/ \E txBuf \in {NULL, "A"}, rxBuf \in {NULL, "A", "B"}, len \in 0..MaxLen,
          pattern \in TxPatterns : transferBurst(txBuf, rxBuf, len, pattern)
    \/ readFifo
    \/ \E data \in Data8 : writeFifo(data)

Steps ==
    \/ _beginTransaction
    \/ _csLow
    \/ transfer8_xfer
    \/ transfer16_xfer
    \/ transfer32_xfer
    \/ transferBurst_loop
    \/ _csHigh
    \/ _endTransaction
    \/ Return

Next == Lifecycle \/ Configure \/ Probe \/ Calls \/ Steps

\* any caller, any peripheral answers
Spec == Init /\ [][Next]_vars

\* the loopback examples: begin(&fpgaSPI, SPI_CS, 1000000, SPI_MODE1) against a
\* loopback peripheral of either TRANSFER_WIDTH and unknown register content
InitLoopback ==
    /\ Init!1 /\ Init!2 /\ Init!3 /\ Init!4 /\ Init!5 /\ Init!6 /\ Init!7 /\ Init!8
    /\ fpga \in LoopbackFpgas
    /\ Init!10 /\ Init!11 /\ Init!12 /\ Init!13 /\ Init!14 /\ Init!15 /\ Init!16
    /\ Init!17

NextLoopback ==
    \/ begin(SPI, 3, 1000000, 1)
    \/ end
    \/ Calls
    \/ Steps

SpecLoopback == InitLoopback /\ [][NextLoopback]_vars

\* the block-memory example: begin(&fpgaSPI, SPI_CS, 1000000, SPI_MODE1), then
\* a test of n bytes against the block-memory peripheral
InitBram ==
    /\ Init!1 /\ Init!2 /\ Init!3 /\ Init!4 /\ Init!5 /\ Init!6 /\ Init!7 /\ Init!8
    /\ fpga \in BramFpgas
    /\ Init!10 /\ Init!11 /\ Init!12 /\ Init!13 /\ Init!14 /\ Init!15 /\ Init!16
    /\ \E n \in 0..MemSize :
          prev = [fn |-> "bram", data |-> 0, phase |-> "reset", n |-> n,
                  written |-> <<>>, read |-> <<>>]

\* the byte the test sends next
BramSends ==
    CASE prev.phase \in {"reset", "reset2"} -> {CmdReset}
      [] prev.phase = "write" -> BramData
      [] prev.phase = "readmode" -> {CmdRead}
      [] prev.phase = "read" -> {0}
      [] OTHER -> {}

\* spi.transfer8(0xFF), spi.transfer8(writeData[i]), spi.transfer8(0xFE),
\* readData[i] = spi.transfer8(0x00)
BramTransfer == \E data \in BramSends : transfer8(data)

\* the write pass as one write-only burst of the send buffer
BramBurst ==
    /\ prev.phase = "write" /\ prev.written = <<>> /\ prev.n <= MaxLen
    /\ \E pattern \in TxPatterns : transferBurst("A", NULL, prev.n, pattern)

NextBram ==
    \/ begin(SPI, 3, 1000000, 1)
    \/ end
    \/ BramTransfer
    \/ BramBurst
    \/ _beginTransaction
    \/ _csLow
    \/ transfer8_xfer
    \/ transferBurst_loop
    \/ _csHigh
    \/ _endTransaction
    \/ Return

SpecBram == InitBram /\ [][NextBram]_vars

-----------------------------------------------------------------------------
(* What a call did, read from its trace *)

Count(e) == Len(SelectSeq(trace, LAMBDA x : x.e = e))

\* the physical exchanges of the running call, in order
Xfers == SelectSeq(trace, LAMBDA x : x.e = "transfer")

\* Transaction Windows the running call has opened and not yet closed
OpenWindows == Count("csLow") - Count("csHigh")

WordFns == {"transfer8", "transfer16", "transfer32"}
TransferFns == WordFns \cup {"transferBurst"}

Bytes(fn) == CASE fn = "transfer8" -> 1 [] fn = "transfer16" -> 2 [] OTHER -> 4

Zero(fn) ==
    CASE fn \in {"transfer8", "transfer16"} -> 0
      [] fn = "transfer32" -> <<0, 0>>
      [] OTHER -> Void

\* begin() has been called on the handle at some time
Begun == _cs \in CsPins

-----------------------------------------------------------------------------
(* Claims *)

\* C1: once begin() has run, the select line is low exactly while the running
\* transfer has its Transaction Window open (at most one is ever open), and it
\* is high whenever no transfer is executing.
C1_SelectLineFollowsWindow ==
    Begun =>
        /\ OpenWindows \in {0, 1}
        /\ (pin[_cs] = "LOW") <=> (OpenWindows = 1)
        /\ pc \in {"idle", "ret"} => pin[_cs] = "HIGH"

C1_Witness ==
    /\ Begun /\ pin[_cs] = "LOW" /\ OpenWindows = 1
    /\ call.fn = "transfer32" /\ i = 2

\* C2: on a handle that was never begun, or whose last lifecycle call was
\* end(), transfer8/16/32 return 0, transferBurst leaves the buffers as they
\* were, and none of them exchanges a byte, begins a transaction or asserts
\* the select line.
C2_UninitializedDoesNothing ==
    (pc # "idle" /\ call.fn \in TransferFns /\ ~_initialized) =>
        /\ pc = "ret"
        /\ result = Zero(call.fn)
        /\ buf = call.buf0
        /\ trace = <<>> /\ i = 0
        /\ ~bus.txn
        /\ ~Selected

C2_Witness ==
    /\ pc = "ret" /\ call.fn = "transfer32" /\ ~_initialized
    /\ Begun /\ result = <<0, 0>>

\* C3 as stated: on every handle that begin() has initialized, a word
\* transfer of width W makes W/8 exchanges in one window.
C3_Original ==
    (pc \in {"cshigh", "end", "ret"} /\ call.fn \in WordFns /\ _initialized) =>
        i = Bytes(call.fn)

\* C3 amended: on an initialized handle whose driver is not null, a word
\* transfer of width W makes exactly W/8 physical exchanges, all of them with
\* the select line asserted, in a single Transaction Window.
C3_WordInOneWindow ==
    /\ (pc \in {"cshigh", "end", "ret"} /\ call.fn \in WordFns
            /\ _initialized /\ _spi # NULL) =>
          /\ i = Bytes(call.fn)
          /\ Len(Xfers) = Bytes(call.fn)
          /\ \A k \in 1..Len(Xfers) : Xfers[k].sel
          /\ Count("csLow") = 1
    /\ (pc = "ret" /\ call.fn \in WordFns /\ _initialized /\ _spi # NULL) =>
          Count("csHigh") = 1

C3_Witness ==
    /\ pc = "ret" /\ call.fn = "transfer32" /\ _initialized /\ _spi # NULL
    /\ Len(Xfers) = 4 /\ Count("csLow") = 1 /\ Count("csHigh") = 1

\* C4: transfer16 and transfer32 send the most significant byte first, and
\* the k-th byte received takes in the result the place the k-th byte sent
\* had in the argument.
C4_MsbFirst ==
    (pc = "ret" /\ i > 0) =>
        /\ call.fn = "transfer16" =>
              /\ \A k \in 1..2 : Xfers[k].tx \in 0..255
              /\ call.data = Xfers[1].tx * 256 + Xfers[2].tx
              /\ result = Xfers[1].rx * 256 + Xfers[2].rx
        /\ call.fn = "transfer32" =>
              /\ \A k \in 1..4 : Xfers[k].tx \in 0..255
              /\ call.data = << Xfers[1].tx * 256 + Xfers[2].tx,
                                Xfers[3].tx * 256 + Xfers[4].tx >>
              /\ result = << Xfers[1].rx * 256 + Xfers[2].rx,
                             Xfers[3].rx * 256 + Xfers[4].rx >>

C4_Witness ==
    /\ pc = "ret" /\ call.fn = "transfer32" /\ call.data = <<57005, 1>>
    /\ Len(Xfers) = 4 /\ [k \in 1..4 |-> Xfers[k].tx] = <<222, 173, 0, 1>>
    /\ [k \in 1..4 |-> Xfers[k].rx] = <<255, 0, 173, 222>>
    /\ result = <<65280, 44510>>

\* C5: when every physical exchange of a transfer16 or transfer32 call gives
\* back the byte that was sent in it, the call returns its argument.
C5_RoundTrip ==
    (pc = "ret" /\ call.fn \in {"transfer16", "transfer32"} /\ i > 0
        /\ \A k \in 1..Len(Xfers) : Xfers[k].rx = Xfers[k].tx) =>
        result = call.data

C5_Witness ==
    /\ pc = "ret" /\ call.fn = "transfer32" /\ call.data = <<57005, 255>>
    /\ Len(Xfers) = 4 /\ \A k \in 1..4 : Xfers[k].rx = Xfers[k].tx
    /\ result = <<57005, 255>>

\* C6: against the loopback peripheral with its 8-bit shift register, in a
\* sequence of transfer8 calls every call but the first returns the byte the
\* call before it sent.
C6_Latency8 ==
    (fpga.kind = "loopback" /\ fpga.width = 8 /\ pc = "ret" /\ i > 0
        /\ call.fn = "transfer8" /\ prev.fn = "transfer8") =>
        result = prev.data

C6_Witness ==
    /\ fpga.kind = "loopback" /\ fpga.width = 8 /\ pc = "ret" /\ i > 0
    /\ call.fn = "transfer8" /\ prev.fn = "transfer8"
    /\ prev.data = 255 /\ call.data = 0 /\ result = 255

\* C7 as stated: against the loopback peripheral with its 8-bit shift
\* register, in a sequence of transfer16 (transfer32) calls every call but the
\* first returns the whole word the call before it sent.
C7_Original ==
    (fpga.kind = "loopback" /\ fpga.width = 8 /\ pc = "ret" /\ i > 0
        /\ call.fn \in {"transfer16", "transfer32"} /\ prev.fn = call.fn) =>
        result = prev.data

\* C7 amended: against a loopback peripheral whose transfer width is W, in a
\* sequence of W-bit transfers every call but the first returns the whole
\* word the call before it sent.
C7_WordLatency ==
    (fpga.kind = "loopback" /\ pc = "ret" /\ i > 0
        /\ call.fn \in {"transfer16", "transfer32"} /\ prev.fn = call.fn
        /\ fpga.width = 8 * Bytes(call.fn)) =>
        result = prev.data

C7_Witness ==
    /\ fpga.kind = "loopback" /\ fpga.width = 32 /\ pc = "ret" /\ i = 4
    /\ call.fn = "transfer32" /\ prev.fn = "transfer32"
    /\ prev.data = <<57005, 1>> /\ call.data = <<57005, 255>>
    /\ result = <<57005, 1>>

\* C8: against the loopback peripheral with its 8-bit shift register, one
\* burst of N bytes leaves R[i] = S[i-1] for 1 <= i < N (S as the caller
\* filled it), and R[0] is what the peripheral held before: the byte of the
\* transfer8 before the burst, if there was one.
C8_BurstLatency ==
    (fpga.kind = "loopback" /\ fpga.width = 8 /\ pc = "ret" /\ i > 0
        /\ call.fn = "transferBurst" /\ call.tx # NULL /\ call.rx # NULL) =>
        /\ \A k \in 2..call.len : buf[call.rx][k] = call.buf0[call.tx][k - 1]
        /\ prev.fn = "transfer8" => buf[call.rx][1] = prev.data

C8_Witness ==
    /\ fpga.kind = "loopback" /\ fpga.width = 8 /\ pc = "ret"
    /\ call.fn = "transferBurst" /\ call.tx = "A" /\ call.rx = "B"
    /\ call.len = 3 /\ i = 3 /\ prev.fn = "transfer8" /\ prev.data = 18
    /\ call.buf0.A[1] = 0 /\ buf.B[1] = 18 /\ buf.B[2] = 0 /\ buf.B[3] = 1

\* C9 as stated: on every handle that begin() has initialized, a burst of
\* len > 0 makes len exchanges.
C9_Original ==
    (pc \in {"cshigh", "end", "ret"} /\ call.fn = "transferBurst" /\ call.len > 0
        /\ _initialized) =>
        i = call.len

\* C9 amended: on an initialized handle whose driver is not null, a burst of
\* len > 0 makes exactly len exchanges in one Transaction Window; exchange k
\* sends txBuf[k], or 0x00 without a send buffer, and its byte is stored in
\* rxBuf[k], or dropped without a receive buffer; nothing else is written.
C9_BurstInOneWindow ==
    /\ (pc \in {"cshigh", "end", "ret"} /\ call.fn = "transferBurst" /\ call.len > 0
            /\ _initialized /\ _spi # NULL) =>
          /\ i = call.len
          /\ Len(Xfers) = call.len
          /\ Count("csLow") = 1
          /\ \A k \in 1..Len(Xfers) :
                /\ Xfers[k].sel
                /\ Xfers[k].tx = IF call.tx # NULL THEN call.buf0[call.tx][k] ELSE 0
                /\ call.rx # NULL => buf[call.rx][k] = Xfers[k].rx
          /\ \A b \in {"A", "B"}, k \in 1..BufCap :
                (b # call.rx \/ k > call.len) => buf[b][k] = call.buf0[b][k]
    /\ (pc = "ret" /\ call.fn = "transferBurst" /\ call.len > 0
            /\ _initialized /\ _spi # NULL) =>
          Count("csHigh") = 1

C9_Witness ==
    /\ pc = "ret" /\ call.fn = "transferBurst" /\ call.len = 3
    /\ _initialized /\ _spi # NULL /\ call.tx = "A" /\ call.rx = "B"
    /\ Len(Xfers) = 3 /\ Xfers[1].tx = 0 /\ Xfers[2].tx = 1 /\ Xfers[3].tx = 2
    /\ buf.B[1] = 222 /\ buf.B[2] = 173 /\ buf.B[3] = 255

\* C10: transferBurst with len = 0 does nothing on any handle: no window, no
\* transaction, no exchange, the select line and the buffers as they were.
C10_ZeroLengthBurst ==
    (pc # "idle" /\ call.fn = "transferBurst" /\ call.len = 0) =>
        /\ pc = "ret"
        /\ trace = <<>> /\ i = 0
        /\ buf = call.buf0
        /\ ~bus.txn
        /\ \A p \in CsPins : pin[p] = IF Begun THEN "HIGH" ELSE "UNSET"

C10_Witness ==
    /\ pc = "ret" /\ call.fn = "transferBurst" /\ call.len = 0
    /\ _initialized /\ _spi # NULL /\ call.tx = "A" /\ call.rx = "B"

\* a written byte is one of the two command values
Reserved(b) == b = CmdRead \/ b = CmdReset

\* C11: against the block-memory peripheral, after address reset, N data bytes
\* none of which is 0xFE or 0xFF, address reset, enter read mode and N read
\* exchanges of 0x00, the N bytes read are the N bytes written, in order; and
\* while the read pass runs, what has been read is what was written there.
C11_WriteReadBack ==
    (fpga.kind = "bram" /\ \A k \in 1..Len(prev.written) : ~Reserved(prev.written[k])) =>
        /\ \A k \in 1..Len(prev.read) : prev.read[k] = prev.written[k]
        /\ prev.phase = "done" => prev.read = prev.written

C11_Witness ==
    /\ fpga.kind = "bram" /\ prev.phase = "done" /\ prev.n = MemSize
    /\ \A k \in 1..MemSize : ~Reserved(prev.written[k])
    /\ prev.written[1] = 253 /\ prev.written[2] = 18
    /\ prev.read = prev.written

\* the physical exchanges the running call makes in all
Exchanges ==
    CASE call.fn = "transferBurst" -> call.len
      [] call.fn = "transfer16" -> 2
      [] call.fn = "transfer32" -> 4
      [] call.fn \in {"transfer8", "readFifo", "writeFifo", "isReady"} -> 1
      [] OTHER -> 0

\* C12: every transfer follows the order open the link transaction, assert the
\* select line, exchange, deassert the select line, close the link
\* transaction; every exchange happens with the select line low and inside
\* the begun link transaction.
C12_WindowOrder ==
    /\ \A k \in 1..Len(trace) :
         CASE trace[k].e = "beginTransaction" ->
                k = 1 /\ ~trace[k].sel /\ ~trace[k].txn
           [] trace[k].e = "csLow" ->
                k = 2 /\ ~trace[k].sel /\ trace[k].txn
           [] trace[k].e = "transfer" ->
                /\ k > 2 /\ trace[k - 1].e \in {"csLow", "transfer"}
                /\ trace[k].sel /\ trace[k].txn
           [] trace[k].e = "csHigh" ->
                /\ k > 2 /\ trace[k - 1].e = "transfer"
                /\ trace[k].sel /\ trace[k].txn
           [] OTHER ->
                /\ k > 1 /\ k = Len(trace) /\ trace[k - 1].e = "csHigh"
                /\ ~trace[k].sel /\ trace[k].txn
    /\ (pc = "ret" /\ trace # <<>>) =>
         /\ trace[Len(trace)].e = "endTransaction"
         /\ ~Selected /\ ~bus.txn

C12_Witness ==
    /\ pc = "ret" /\ call.fn = "transferBurst" /\ call.len = MaxLen
    /\ Len(trace) = MaxLen + 4
    /\ \A k \in 3..(MaxLen + 2) : trace[k].e = "transfer" /\ trace[k].sel
    /\ trace[1].e = "beginTransaction" /\ trace[2].e = "csLow"
    /\ trace[MaxLen + 3].e = "csHigh" /\ trace[MaxLen + 4].e = "endTransaction"

\* C13: every logical operation (transfer8/16/32, transferBurst, readFifo,
\* writeFifo, isReady) opens at most one Transaction Window, a window is open
\* only between _csLow and _csHigh, the operation makes no more than its
\* number of exchanges, can always take its next step, and returns with the
\* window closed and the select line deasserted.
C13_OneWindowClosed ==
    /\ Count("csLow") <= 1
    /\ Count("beginTransaction") <= 1
    /\ OpenWindows = (IF pc \in {"xfer", "cshigh"} THEN 1 ELSE 0)
    /\ Selected <=> pc \in {"xfer", "cshigh"}
    /\ i <= Exchanges /\ Len(Xfers) = i
    /\ pc \notin {"idle", "ret"} => ENABLED Steps
    /\ pc \in {"idle", "ret"} =>
         /\ Count("csHigh") = Count("csLow")
         /\ Count("endTransaction") = Count("beginTransaction")
         /\ Begun => pin[_cs] = "HIGH"

C13_Witness ==
    /\ pc = "ret" /\ call.fn = "isReady" /\ result = TRUE
    /\ Count("csLow") = 1 /\ Count("csHigh") = 1 /\ Len(Xfers) = 1
    /\ pin[_cs] = "HIGH"

\* C14: setBitWidth with a width other than 8, 16, 32 and setMode with a mode
\* above 3 leave speed, mode, width, driver, pin and initialized flag as
\* they were; with a valid argument they change only their own field; neither
\* touches the select line, the link or the peripheral.
C14_SetterFrame ==
    [][ (pc = "idle" /\ pc' = "ret" /\ call'.fn \in {"setBitWidth", "setMode"}) =>
          /\ UNCHANGED <<pin, bus, fpga>>
          /\ IF call'.fn = "setBitWidth"
               THEN IF call'.data \in {8, 16, 32}
                      THEN /\ _bitWidth' = call'.data
                           /\ UNCHANGED <<_spi, _cs, _speed, _mode, _initialized>>
                      ELSE UNCHANGED handle
               ELSE IF call'.data \in 0..3
                      THEN /\ _mode' = call'.data
                           /\ UNCHANGED <<_spi, _cs, _speed, _bitWidth, _initialized>>
                      ELSE UNCHANGED handle ]_vars

C14_Witness ==
    /\ pc = "ret" /\ call.fn = "setMode" /\ call.data = 4
    /\ _mode = 3 /\ _bitWidth = 32 /\ _speed = 8000000 /\ _initialized

\* the settings of the open link transaction are the stored ones
C15_Applied == bus.txn => (bus.speed = _speed /\ bus.mode = _mode)

\* C15: setSpeed and a valid setMode store their argument; the clock rate and
\* mode a link transaction is opened with are the stored ones, that is the
\* ones most recently set; between the open and the close of a window neither
\* the applied settings nor the stored configuration change.
C15_NextTransaction ==
    /\ []C15_Applied
    /\ [][ /\ (pc = "idle" /\ pc' = "ret" /\ call'.fn = "setSpeed") =>
                _speed' = call'.data
           /\ (pc = "idle" /\ pc' = "ret" /\ call'.fn = "setMode"
                 /\ call'.data \in 0..3) => _mode' = call'.data
           /\ (pc = "idle" /\ pc' = "ret" /\ call'.fn = "setBitWidth"
                 /\ call'.data \in {8, 16, 32}) => _bitWidth' = call'.data
           /\ (~bus.txn /\ bus'.txn) =>
                /\ bus'.speed = _speed /\ bus'.mode = _mode
                /\ UNCHANGED handle
           /\ (bus.txn /\ bus'.txn) => (bus' = bus /\ UNCHANGED handle)
           /\ pc \notin {"idle", "ret"} => UNCHANGED handle ]_vars

C15_Witness ==
    /\ pc = "cshigh" /\ bus.txn /\ bus.speed = 8000000 /\ bus.mode = 3
    /\ _speed = 8000000 /\ _mode = 3 /\ i > 0

Probes == {"rxAvailable", "txReady", "isReady"}

\* C16 as stated: rxAvailable, txReady and isReady each return one fixed
\* value in every handle state and none of them exchanges a byte or opens a
\* Transaction Window.
C16_Original ==
    (pc = "ret" /\ call.fn \in Probes) =>
        /\ result = (IF call.fn = "rxAvailable" THEN 0 ELSE TRUE)
        /\ trace = <<>> /\ i = 0

\* what a returned probe has answered and done
C16_Answered ==
    (pc = "ret" /\ call.fn \in Probes) =>
        CASE call.fn = "rxAvailable" -> result = 0 /\ trace = <<>> /\ i = 0
          [] call.fn = "txReady" -> result = TRUE /\ trace = <<>> /\ i = 0
          [] OTHER ->
               IF NotReady
                 THEN result = FALSE /\ trace = <<>> /\ i = 0
                 ELSE /\ result = TRUE
                      /\ Len(trace) = 5 /\ Count("csLow") = 1 /\ Count("csHigh") = 1
                      /\ Len(Xfers) = 1 /\ Xfers[1].tx = 165

\* C16: rxAvailable returns 0 and txReady returns true in every handle state,
\* and neither exchanges a byte, opens a window or changes the handle, the
\* select line, the link or the peripheral; isReady returns false without
\* touching the link on a handle that is not initialized, and otherwise
\* exchanges the byte 0xA5 in one Transaction Window of its own and returns
\* true whatever byte came back.
C16_Probes ==
    /\ []C16_Answered
    /\ [][ (pc = "idle" /\ pc' = "ret" /\ call'.fn \in Probes) =>
               UNCHANGED <<handle, pin, bus, fpga, buf>> ]_vars
    /\ [][ (call.fn = "isReady" /\ pc = "xfer") =>
               (fpga' = FpgaAfter(fpga, 165) /\ rxd'[1] \in Miso) ]_vars

C16_Witness ==
    /\ pc = "ret" /\ call.fn = "isReady" /\ result = TRUE
    /\ Len(Xfers) = 1 /\ Xfers[1].tx = 165 /\ Xfers[1].rx = 0 /\ Xfers[1].sel

\* C17: transfer8 and transferBurst put every byte on the wire as given, 0xFE
\* and 0xFF included; against the block-memory peripheral a reserved value in
\* the write pass is therefore never stored, and once the read pass is done
\* the bytes read differ from the bytes written.
C17_ReservedByteCollides ==
    fpga.kind = "bram" =>
        /\ \A k \in 1..Len(Xfers) :
             Xfers[k].tx = (IF call.fn = "transferBurst"
                              THEN call.buf0.A[k] ELSE call.data)
        /\ \A k \in 1..MemSize : ~Reserved(fpga.mem[k])
        /\ (prev.phase = "done" /\ \E k \in 1..Len(prev.written) : Reserved(prev.written[k]))
             => prev.read # prev.written

C17_Witness ==
    /\ fpga.kind = "bram" /\ prev.phase = "done"
    /\ prev.written = <<255, 1, 255>>
    /\ prev.read[1] = 1 /\ prev.read # prev.written

\* C18 as stated: whatever begin, end, setMode, setSpeed and setBitWidth calls
\* were made, the stored mode is one of 0..3 and the stored width one of 8,
\* 16, 32, and every link transaction is opened with a mode in 0..3.
C18_ValidConfig ==
    /\ _mode \in 0..3
    /\ _bitWidth \in {8, 16, 32}
    /\ bus.txn => bus.mode \in 0..3

\* the bytes of the send buffer of the burst a call corresponds to: the value
\* of a word transfer most significant byte first, the one byte of an 8-bit
\* transfer, the send buffer (or zeros) of a burst
WireBytes ==
    CASE call.fn = "transfer16" ->
           << call.data \div 256, call.data % 256 >>
      [] call.fn = "transfer32" ->
           << call.data[1] \div 256, call.data[1] % 256,
              call.data[2] \div 256, call.data[2] % 256 >>
      [] call.fn = "transferBurst" ->
           [k \in 1..call.len |-> IF call.tx # NULL THEN call.buf0[call.tx][k] ELSE 0]
      [] call.fn \in {"transfer8", "readFifo", "writeFifo", "isReady"} ->
           << call.data >>
      [] OTHER -> << >>

\* the value a call returns for the received bytes rx, decoded most
\* significant byte first
Decoded(rx) ==
    CASE call.fn \in {"transfer8", "readFifo"} -> rx[1]
      [] call.fn = "transfer16" -> rx[1] * 256 + rx[2]
      [] call.fn = "transfer32" -> << rx[1] * 256 + rx[2], rx[3] * 256 + rx[4] >>
      [] call.fn = "isReady" -> TRUE
      [] OTHER -> Void

\* the bytes received in the exchanges so far
RxBytesOf(t) == [k \in 1..Len(t) |-> t[k].rx]

\* C19: whatever width setBitWidth has stored, a transfer makes the number of
\* exchanges of its entry point (len for a burst), sends the bytes of its
\* argument and returns the decoding of the bytes received: none of the three
\* depends on the stored width.
C19_WidthIgnored ==
    \A w \in {8, 16, 32} :
        (_bitWidth = w /\ trace # <<>> /\ pc \in {"cshigh", "end", "ret"}) =>
            /\ Len(Xfers) = Exchanges
            /\ Len(Xfers) = Len(WireBytes)
            /\ \A k \in 1..Len(Xfers) : Xfers[k].tx = WireBytes[k]
            /\ pc = "ret" => result = Decoded(RxBytesOf(Xfers))

C19_Witness ==
    /\ pc = "ret" /\ _bitWidth = 32 /\ call.fn = "transfer16"
    /\ call.data = 40961 /\ Len(Xfers) = 2
    /\ Xfers[1].tx = 160 /\ Xfers[2].tx = 1
    /\ result = 57005

\* the peripheral after it was sent the bytes of s one after the other
RECURSIVE After(_, _)
After(f, s) == IF s = <<>> THEN f ELSE After(FpgaAfter(f, Head(s)), Tail(s))

\* transferBurst as a function: the events of a burst that sends the bytes tx
\* and receives the bytes rx, with the peripheral in state d0, the select
\* line high and no link transaction open when it is called
BurstEvents(tx, rx, d0) ==
    << [e |-> "beginTransaction", tx |-> 0, rx |-> 0, sel |-> FALSE, txn |-> FALSE, dev |-> d0],
       [e |-> "csLow", tx |-> 0, rx |-> 0, sel |-> FALSE, txn |-> TRUE, dev |-> d0] >>
    \o [k \in 1..Len(tx) |->
          [e |-> "transfer", tx |-> tx[k], rx |-> rx[k], sel |-> TRUE, txn |-> TRUE,
           dev |-> After(d0, SubSeq(tx, 1, k - 1))]]
    \o << [e |-> "csHigh", tx |-> 0, rx |-> 0, sel |-> TRUE, txn |-> TRUE,
           dev |-> After(d0, tx)],
          [e |-> "endTransaction", tx |-> 0, rx |-> 0, sel |-> FALSE, txn |-> TRUE,
           dev |-> FpgaDeselect(After(d0, tx))] >>

\* C20: a returned transfer8, transfer16 or transfer32 of v has produced the
\* select-line edges and exchanges of transferBurst on the bytes of v most
\* significant first (a burst itself those of its own send buffer), has left
\* the peripheral in the state that burst leaves it in, every byte received
\* is one the peripheral answers at that point, the value returned is the
\* decoding, most significant byte first, of the bytes received, and a burst
\* has those same bytes in its receive buffer.
C20_WordIsBurst ==
    (pc = "ret" /\ trace # <<>>) =>
        /\ Len(Xfers) = Len(WireBytes)
        /\ trace = BurstEvents(WireBytes, RxBytesOf(Xfers), trace[1].dev)
        /\ fpga = FpgaDeselect(After(trace[1].dev, WireBytes))
        /\ \A k \in 1..Len(Xfers) : Xfers[k].rx \in FpgaMiso(Xfers[k].dev)
        /\ result = Decoded(RxBytesOf(Xfers))
        /\ (call.fn = "transferBurst" /\ call.rx # NULL) =>
             \A k \in 1..call.len : buf[call.rx][k] = Xfers[k].rx
        /\ ~Selected /\ ~bus.txn

C20_Witness ==
    /\ pc = "ret" /\ call.fn = "transfer32" /\ call.data = <<57005, 255>>
    /\ fpga.kind = "loopback" /\ fpga.width = 16
    /\ Len(trace) = 8 /\ WireBytes = <<222, 173, 0, 255>>
    /\ fpga.reg = <<0, 255>>
    /\ result[2] = 57005

\* C21: a burst leaves every buffer other than its receive buffer as the
\* caller handed it over, the send buffer included; in the receive buffer it
\* has stored the byte of exchange k at index k for the exchanges made so far
\* (all len of them once it returns) and left every other index as it was;
\* and the byte sent in exchange k is the content index k of the send buffer
\* had when the burst was called, also when send and receive buffer are the
\* same, so a burst in place sends what a burst with separate buffers sends.
C21_BurstBuffers ==
    call.fn = "transferBurst" =>
        /\ \A b \in {"A", "B"} : b # call.rx => buf[b] = call.buf0[b]
        /\ call.rx # NULL =>
             \A k \in 1..BufCap :
                 buf[call.rx][k] = (IF k <= i THEN rxd[k] ELSE call.buf0[call.rx][k])
        /\ Len(Xfers) = i /\ i <= call.len
        /\ \A k \in 1..i :
             Xfers[k].tx = (IF call.tx # NULL THEN call.buf0[call.tx][k] ELSE 0)
        /\ (pc = "ret" /\ trace # <<>>) => i = call.len
        /\ (pc = "ret" /\ trace = <<>>) => (i = 0 /\ buf = call.buf0)

C21_Witness ==
    /\ pc = "ret" /\ call.fn = "transferBurst"
    /\ call.tx = "A" /\ call.rx = "A" /\ call.len = MaxLen
    /\ Len(Xfers) = MaxLen
    /\ \A k \in 1..MaxLen : Xfers[k].tx = call.buf0.A[k] /\ buf.A[k] = Xfers[k].rx
    /\ \A k \in 1..MaxLen : buf.A[k] # call.buf0.A[k]
    /\ buf.A[BufCap] = call.buf0.A[BufCap] /\ buf.B = PoisonBuf

====
